---------------------------- MODULE Spec2Model ----------------------------
(***************************************************************************)
(* generate_icons.py: a script that rasterizes the golf-ball icon at the   *)
(* eight sizes of SIZES and saves each as icons/icon-SxS.png.              *)
(*                                                                         *)
(* The canvas is observed at sample pixels (Pixels(size)): the centre, the *)
(* four corners and some pixels of the top row.  Every drawing call is     *)
(* modelled by the pixels it covers; the float coordinates of the script   *)
(* are exact rationals kept as integers in units of 1/Den, and the drawing *)
(* library's (int) cast of a coordinate is CInt.                           *)
(***************************************************************************)
EXTENDS Integers, Sequences, FiniteSets, TLC

\* Number of times the script is run in a row (SpecRerun, SpecAnyOrder).
MaxRuns == 2

\* SIZES = [72, 96, 128, 144, 152, 192, 384, 512]
SIZES == <<72, 96, 128, 144, 152, 192, 384, 512>>

----------------------------------------------------------------------------
\* Exact arithmetic on the script's floats: the value v is kept as v * Den.

Den == 2 * 3 * 125

Q(n) == n * Den

\* C's (int) cast of a double: truncation toward zero.
CInt(q) == IF q >= 0 THEN q \div Den ELSE -((-q) \div Den)

Max(a, b) == IF a >= b THEN a ELSE b

\* padding = size * 0.1
Padding(size) == (Q(size) * 1) \div 10

\* center = size / 2
Center(size) == Q(size) \div 2

\* ball_radius = (size - 2 * padding) / 3
BallRadius(size) == (Q(size) - 2 * Padding(size)) \div 3

\* pattern_radius = ball_radius * 0.8
PatternRadius(size) == (BallRadius(size) * 8) \div 10

\* center + pattern_radius * 0.3 * (angle % 90) / 90
PatternCenter(size, angle) ==
    Center(size) + (((PatternRadius(size) * 3) \div 10) * (angle % 90)) \div 90

\* max(1, size // 50)
PatternWidth(size) == Max(1, size \div 50)

\* line_width = max(2, size // 30)
LineWidth(size) == Max(2, size \div 30)

\* A variant of GlowWidth whose strokes widen instead of narrowing.
GlowWidthWidening(size, j) == LineWidth(size) + (j + 1) * 2

\* width = line_width + (3-i)*2 for the glow stroke i of range(3)
GlowWidth(size, j) == LineWidth(size) + (3 - j) * 2

\* radius = size // 30 of the gaussian blur
BlurRadius(size) == size \div 30

\* int(size * 1.2): the first value of the gradient loop
GradStart(size) == (size * 12) \div 10

\* A variant of GradAlpha that divides by size, without the factor 1.2.
GradAlphaBySize(size, i) == (255 * (size - i)) \div size

\* alpha = int(255 * (1 - i / (size * 1.2)))
GradAlpha(size, i) == (255 * (12 * size - 10 * i)) \div (12 * size)

----------------------------------------------------------------------------
\* Colours (RGBA).

Transparent == <<0, 0, 0, 0>>
Accent(alpha) == <<59, 130, 246, alpha>>
ShadowFill == <<0, 0, 0, 50>>
White == <<255, 255, 255, 255>>
PatternFill == <<229, 231, 235, 255>>
GlowColor == <<255, 255, 255, 100>>

----------------------------------------------------------------------------
\* The observed pixels of a size x size canvas, as <<x, y>>.

CenterPixel(size) == <<size \div 2, size \div 2>>
CornerPixels(size) ==
    {<<0, 0>>, <<size - 1, 0>>, <<0, size - 1>>, <<size - 1, size - 1>>}
TopPixel(size) == <<size \div 2, 0>>
\* Pixels of the top row that canvases of different sizes have in common.
TopRow(size) == {TopPixel(SIZES[n]) : n \in {m \in 1..Len(SIZES) : SIZES[m] <= size}}
Pixels(size) == {CenterPixel(size)} \cup TopRow(size) \cup CornerPixels(size)

\* Image.new('RGBA', (size, size), (0, 0, 0, 0))
NewImage(size) == [p \in Pixels(size) |-> Transparent]


----------------------------------------------------------------------------
\* The drawing library's calls, by the pixels they cover.  A call takes its
\* coordinates as floats and casts each to int; with a fill on an RGBA
\* canvas it replaces the covered pixels (no blending).

Sq(n) == n * n

\* draw.ellipse([x0, y0, x1, y1]): the disc inscribed in the box, its edge
\* included.  Every box the script passes is a square.
InEllipse(p, xy) ==
    LET x0 == CInt(xy[1])
        y0 == CInt(xy[2])
        x1 == CInt(xy[3])
        y1 == CInt(xy[4])
    IN  /\ x0 <= p[1] /\ p[1] <= x1
        /\ y0 <= p[2] /\ p[2] <= y1
        /\ Sq(2 * p[1] - x0 - x1) + Sq(2 * p[2] - y0 - y1) <= Sq(x1 - x0)

\* 1000 * cos and 1000 * sin of a multiple of 15 degrees.
Cos15(a) ==
    CASE a = 0 -> 1000 [] a = 15 -> 966 [] a = 30 -> 866 [] a = 45 -> 707
      [] a = 60 -> 500 [] a = 75 -> 259 [] a = 90 -> 0

CosK(deg) ==
    LET a == deg % 360
    IN  IF a <= 90 THEN Cos15(a)
        ELSE IF a <= 180 THEN -Cos15(180 - a)
        ELSE IF a <= 270 THEN -Cos15(a - 180)
        ELSE Cos15(360 - a)

SinK(deg) == CosK(deg + 270)

\* draw.arc(box, start, end, width): the part of the ring of that width,
\* inside the circle inscribed in the box, between the two angles (degrees,
\* clockwise from 3 o'clock).
OnArc(p, xy, start, end, width) ==
    LET x0 == CInt(xy[1])
        y0 == CInt(xy[2])
        x1 == CInt(xy[3])
        y1 == CInt(xy[4])
        dx == 2 * p[1] - x0 - x1
        dy == 2 * p[2] - y0 - y1
        d2 == Sq(dx) + Sq(dy)
        inner == Max(0, (x1 - x0) - 2 * width)
    IN  /\ d2 <= Sq(x1 - x0)
        /\ d2 >= Sq(inner)
        /\ d2 > 0
        /\ CosK(start) * dy - SinK(start) * dx >= 0
        /\ dx * SinK(end) - dy * CosK(end) >= 0

\* draw.line([start, end], width): the rectangle of that width around an
\* axis-parallel segment (the script draws no other).
OnLine(p, start, end, width) ==
    LET x0 == CInt(start[1])
        y0 == CInt(start[2])
        x1 == CInt(end[1])
        y1 == CInt(end[2])
        lo == width \div 2
        hi == (width - 1) \div 2
    IN  IF x0 = x1
        THEN /\ x0 - lo <= p[1] /\ p[1] <= x0 + hi
             /\ (IF y0 <= y1 THEN y0 ELSE y1) <= p[2]
             /\ p[2] <= Max(y0, y1)
        ELSE /\ y0 = y1
             /\ y0 - lo <= p[2] /\ p[2] <= y0 + hi
             /\ (IF x0 <= x1 THEN x0 ELSE x1) <= p[1]
             /\ p[1] <= Max(x0, x1)

\* The canvas after a call that fills the covered pixels.
Paint(canvas, covered, fill) ==
    [p \in DOMAIN canvas |-> IF p \in covered THEN fill ELSE canvas[p]]

\* The box [c - r, c - r, c + r, c + r] (c, r in units of 1/Den).
SquareBox(c, r) == <<c - r, c - r, c + r, c + r>>

\* A variant of GradBox that takes i as the radius of the circle.
GradBoxRadius(size, i) == SquareBox(Center(size), Q(i))

\* [center - i/2, center - i/2, center + i/2, center + i/2]
GradBox(size, i) == SquareBox(Center(size), Q(i) \div 2)

\* [center - ball_radius + 2, ..., center + ball_radius + 2]
ShadowBox(size) == SquareBox(Center(size) + Q(2), BallRadius(size))

\* A variant of BallBox that leaves the centre out of the box.
BallBoxAtOrigin(size) == SquareBox(BallRadius(size), BallRadius(size))

\* [center - ball_radius, ..., center + ball_radius]
BallBox(size) == SquareBox(Center(size), BallRadius(size))

\* [x1 - pattern_radius, y1 - pattern_radius, x1 + pattern_radius, ...]
PatternBox(size, angle) ==
    SquareBox(PatternCenter(size, angle), PatternRadius(size))

\* The gaussian blur is three box blurs, each reaching `radius` pixels.
BlurReach(size) == 3 * BlurRadius(size)

Clamp(v, lo, hi) == IF v < lo THEN lo ELSE IF v > hi THEN hi ELSE v

\* The values the blurred shadow can take at p: the fill where the whole
\* kernel lies in the disc, transparent where the kernel misses the disc,
\* any opacity up to the fill's on the fringe between.
BlurValues(p, size) ==
    LET r == BlurReach(size)
        xy == ShadowBox(size)
        x0 == CInt(xy[1])
        x1 == CInt(xy[3])
        cx2 == x0 + x1
        nx == Clamp(cx2, 2 * (p[1] - r), 2 * (p[1] + r))
        ny == Clamp(cx2, 2 * (p[2] - r), 2 * (p[2] + r))
        touches == Sq(nx - cx2) + Sq(ny - cx2) <= Sq(x1 - x0)
        inside == \A c \in {<<p[1] - r, p[2] - r>>, <<p[1] + r, p[2] - r>>,
                            <<p[1] - r, p[2] + r>>, <<p[1] + r, p[2] + r>>} :
                      InEllipse(<<c[1], c[2]>>, xy)
    IN  IF inside THEN {ShadowFill}
        ELSE IF ~touches THEN {Transparent}
        ELSE {<<0, 0, 0, a>> : a \in 0..ShadowFill[4]}

\* Division by 255, rounded, as the library's 8-bit blend does it.
Div255(a) == (((a + 128) \div 256) + a + 128) \div 256

\* img.paste(ball_shadow, (0, 0), ball_shadow): every band of every pixel
\* blended with the shadow's own alpha as the mask.
Paste(canvas, over) ==
    [p \in DOMAIN canvas |->
        [b \in 1..4 |->
            Div255(canvas[p][b] * (255 - over[p][4]) + over[p][b] * over[p][4])]]

----------------------------------------------------------------------------
\* File names, console lines and the encoded file.

Digit(d) ==
    CASE d = 0 -> "0" [] d = 1 -> "1" [] d = 2 -> "2" [] d = 3 -> "3"
      [] d = 4 -> "4" [] d = 5 -> "5" [] d = 6 -> "6" [] d = 7 -> "7"
      [] d = 8 -> "8" [] d = 9 -> "9"

RECURSIVE Str(_)
Str(n) == IF n < 10 THEN Digit(n) ELSE Str(n \div 10) \o Digit(n % 10)

\* f'icon-{size}x{size}.png'
BaseName(size) == "icon-" \o Str(size) \o "x" \o Str(size) \o ".png"

\* A variant of IconPath that names the file by one edge only.
IconPathOneEdge(size) == "icons/icon-" \o Str(size) \o ".png"

\* f'icons/icon-{size}x{size}.png'
IconPath(size) == "icons/" \o BaseName(size)

\* A variant of Message that prints the path that was written.
MessageWithPath(size) == "Generated icons/" \o BaseName(size)

\* f'Generated icon-{size}x{size}.png'
Message(size) == "Generated " \o BaseName(size)

----------------------------------------------------------------------------
\* The state of the script and of what it acts on.

VARIABLES
    run,          \* which run of the script this is (1, 2, ...)
    pc,           \* the statement the script is at
    rest,         \* the sizes the driving loop has not reached yet
    size,         \* create_icon's parameter
    img,          \* the canvas, at its observed pixels
    ball_shadow,  \* the auxiliary canvas of the shadow
    i,            \* the gradient loop's variable
    alpha,        \* the alpha of the last gradient circle
    angle,        \* the pattern loop's variable
    call,         \* the last draw.ellipse / draw.arc call
    seg,          \* which draw_glowing_line call is running (1..4)
    k,            \* its next stroke: 0..2 the glow strokes, 3 the core
    strokes,      \* the draw.line calls made on this canvas, in order
    disk,         \* the files of icons/: path -> contents
    written,      \* the paths img.save has written in this run, in order
    console,      \* the lines printed in this run
    error,        \* the exception that ended the run, if any
    kept          \* the files of an earlier run, set aside

vars == <<run, pc, rest, size, img, ball_shadow, i, alpha, angle, call, seg, k,
          strokes, disk, written, console, error, kept>>

canvasVars == <<img, ball_shadow, i, alpha, angle, call, seg, k, strokes>>
ioVars == <<disk, written, console, error, kept>>


\* A variant of Encode that stamps the file with the run that wrote it.
EncodeStamped(canvas, edge) ==
    [format |-> "PNG", mode |-> "RGBA", width |-> edge, height |-> edge,
     pixels |-> canvas, stamp |-> run]

\* img.save(path, 'PNG'): what the file holds of the canvas.
Encode(canvas, edge) ==
    [format |-> "PNG", mode |-> "RGBA", width |-> edge, height |-> edge,
     pixels |-> canvas]

NoImage == [p \in {} |-> Transparent]
NoFiles == [n \in {} |-> Encode(NoImage, 0)]
NoCall == [op |-> "none"]

\* The state of a process that has just started the script.
Started ==
    /\ pc = "loop"
    /\ rest = SIZES
    /\ size = 0
    /\ img = NoImage
    /\ ball_shadow = NoImage
    /\ i = 0
    /\ alpha = 0
    /\ angle = 0
    /\ call = NoCall
    /\ seg = 0
    /\ k = 0
    /\ strokes = <<>>
    /\ written = <<>>
    /\ console = <<>>
    /\ error = "none"

Init ==
    /\ Started
    /\ run = 1
    /\ disk = NoFiles
    /\ kept = NoFiles

\* A variant of Enter that reuses the previous canvas's buffer uncleared.
EnterReusedCanvas(s) ==
    /\ size' = s
    /\ img' = [p \in Pixels(s) |->
                  IF p \in DOMAIN img THEN img[p] ELSE Transparent]
    /\ ball_shadow' = NoImage
    /\ i' = GradStart(s)
    /\ alpha' = 0
    /\ angle' = 0
    /\ call' = NoCall
    /\ seg' = 0
    /\ k' = 0
    /\ strokes' = <<>>
    /\ pc' = "gradient"

\* create_icon(size) is entered: the canvas is allocated and the gradient
\* loop is about to run its first iteration.
Enter(s) ==
    /\ size' = s
    /\ img' = NewImage(s)
    /\ ball_shadow' = NoImage
    /\ i' = GradStart(s)
    /\ alpha' = 0
    /\ angle' = 0
    /\ call' = NoCall
    /\ seg' = 0
    /\ k' = 0
    /\ strokes' = <<>>
    /\ pc' = "gradient"

\* for size in SIZES: create_icon(size)
LoopNext ==
    /\ pc = "loop"
    /\ rest # <<>>
    /\ Enter(Head(rest))
    /\ rest' = Tail(rest)
    /\ UNCHANGED <<run, ioVars>>

\* The loop is exhausted: the script ends.
LoopExit ==
    /\ pc = "loop"
    /\ rest = <<>>
    /\ pc' = "done"
    /\ UNCHANGED <<run, rest, size, canvasVars, ioVars>>

\* One iteration of: for i in range(int(size * 1.2), -1, -1)
Gradient ==
    /\ pc = "gradient"
    /\ alpha' = GradAlpha(size, i)
    /\ call' = [op |-> "ellipse", xy |-> GradBox(size, i),
                fill |-> Accent(alpha')]
    /\ img' = Paint(img, {p \in DOMAIN img : InEllipse(p, GradBox(size, i))},
                    Accent(alpha'))
    /\ IF i > 0
       THEN i' = i - 1 /\ pc' = "gradient"
       ELSE i' = i /\ pc' = "shadow"
    /\ UNCHANGED <<run, rest, size, ball_shadow, angle, seg, k, strokes,
                   ioVars>>

\* ball_shadow = Image.new(...); shadow_draw.ellipse(..., fill=(0, 0, 0, 50))
Shadow ==
    /\ pc = "shadow"
    /\ ball_shadow' = Paint(NewImage(size),
                            {p \in Pixels(size) :
                                InEllipse(p, ShadowBox(size))},
                            ShadowFill)
    /\ call' = [op |-> "ellipse", xy |-> ShadowBox(size), fill |-> ShadowFill]
    /\ pc' = "blur"
    /\ UNCHANGED <<run, rest, size, img, i, alpha, angle, seg, k, strokes,
                   ioVars>>

\* ball_shadow = ball_shadow.filter(ImageFilter.GaussianBlur(radius=size//30))
Blur ==
    /\ pc = "blur"
    /\ ball_shadow' \in
         {f \in [DOMAIN ball_shadow ->
                    UNION {BlurValues(p, size) : p \in DOMAIN ball_shadow}] :
             \A p \in DOMAIN ball_shadow : f[p] \in BlurValues(p, size)}
    /\ pc' = "paste"
    /\ UNCHANGED <<run, rest, size, img, i, alpha, angle, call, seg, k,
                   strokes, ioVars>>

\* img.paste(ball_shadow, (0, 0), ball_shadow)
PasteShadow ==
    /\ pc = "paste"
    /\ img' = Paste(img, ball_shadow)
    /\ pc' = "ball"
    /\ UNCHANGED <<run, rest, size, ball_shadow, i, alpha, angle, call, seg,
                   k, strokes, ioVars>>

\* draw.ellipse([...], fill='white')
Ball ==
    /\ pc = "ball"
    /\ img' = Paint(img, {p \in DOMAIN img : InEllipse(p, BallBox(size))},
                    White)
    /\ call' = [op |-> "ellipse", xy |-> BallBox(size), fill |-> White]
    /\ angle' = 0
    /\ pc' = "pattern"
    /\ UNCHANGED <<run, rest, size, ball_shadow, i, alpha, seg, k, strokes,
                   ioVars>>

\* One iteration of: for angle in range(0, 360, 45): draw.arc(...)
Pattern ==
    /\ pc = "pattern"
    /\ img' = Paint(img,
                    {p \in DOMAIN img :
                        OnArc(p, PatternBox(size, angle), angle, angle + 30,
                              PatternWidth(size))},
                    PatternFill)
    /\ call' = [op |-> "arc", xy |-> PatternBox(size, angle),
                start |-> angle, end |-> angle + 30, fill |-> PatternFill,
                width |-> PatternWidth(size)]
    /\ IF angle + 45 < 360
       THEN angle' = angle + 45 /\ pc' = "pattern" /\ UNCHANGED <<seg, k>>
       ELSE angle' = angle /\ pc' = "lines" /\ seg' = 1 /\ k' = 0
    /\ UNCHANGED <<run, rest, size, ball_shadow, i, alpha, strokes, ioVars>>

\* A variant of Segment whose lines run up to the ball's bounding box.
SegmentToBall(s, n) ==
    LET c == Center(s)
        near == Padding(s)
        inner == Center(s) - BallRadius(s)
        outer == Center(s) + BallRadius(s)
        far == Q(s) - Padding(s)
    IN  CASE n = 1 -> [start |-> <<c, near>>, end |-> <<c, inner>>]
          [] n = 2 -> [start |-> <<c, outer>>, end |-> <<c, far>>]
          [] n = 3 -> [start |-> <<near, c>>, end |-> <<inner, c>>]
          [] n = 4 -> [start |-> <<outer, c>>, end |-> <<far, c>>]

\* The arguments (start, end) of the four draw_glowing_line calls: the
\* vertical lines (top, bottom), then the horizontal lines (left, right).
Segment(s, n) ==
    LET c == Center(s)
        near == Padding(s)
        inner == Center(s) - BallRadius(s) - Padding(s)
        outer == Center(s) + BallRadius(s) + Padding(s)
        far == Q(s) - Padding(s)
    IN  CASE n = 1 -> [start |-> <<c, near>>, end |-> <<c, inner>>]
          [] n = 2 -> [start |-> <<c, outer>>, end |-> <<c, far>>]
          [] n = 3 -> [start |-> <<near, c>>, end |-> <<inner, c>>]
          [] n = 4 -> [start |-> <<outer, c>>, end |-> <<far, c>>]

\* The stroke k of draw_glowing_line: k in range(3) the glow, then the core.
StrokeOf(s, n, j) ==
    [seg |-> n,
     start |-> Segment(s, n).start,
     end |-> Segment(s, n).end,
     fill |-> IF j < 3 THEN GlowColor ELSE White,
     width |-> IF j < 3 THEN GlowWidth(s, j) ELSE LineWidth(s)]

\* One draw.line call of draw_glowing_line(start, end)
Stroke ==
    /\ pc = "lines"
    /\ LET st == StrokeOf(size, seg, k)
       IN  /\ strokes' = Append(strokes, st)
           /\ img' = Paint(img,
                           {p \in DOMAIN img :
                               OnLine(p, st.start, st.end, st.width)},
                           st.fill)
    /\ IF k < 3
       THEN k' = k + 1 /\ seg' = seg /\ pc' = "lines"
       ELSE IF seg < 4
            THEN k' = 0 /\ seg' = seg + 1 /\ pc' = "lines"
            ELSE k' = k /\ seg' = seg /\ pc' = "save"
    /\ UNCHANGED <<run, rest, size, ball_shadow, i, alpha, angle, call,
                   ioVars>>

\* The files after path is written with contents data.
WriteFile(files, path, data) ==
    [n \in DOMAIN files \cup {path} |-> IF n = path THEN data ELSE files[n]]

\* img.save(f'icons/icon-{size}x{size}.png', 'PNG') succeeds
SaveOk ==
    /\ pc = "save"
    /\ disk' = WriteFile(disk, IconPath(size), Encode(img, size))
    /\ written' = Append(written, IconPath(size))
    /\ pc' = "print"
    /\ UNCHANGED <<run, rest, size, canvasVars, console, error, kept>>

\* A variant of SaveFail in which the exception is caught and the loop goes on.
SaveFailSwallowed ==
    /\ pc = "save"
    /\ error' = "OSError"
    /\ pc' = "loop"
    /\ UNCHANGED <<run, rest, size, canvasVars, disk, written, console, kept>>

\* img.save raises (the file cannot be opened for writing): nothing catches
\* the exception, the script ends.
SaveFail ==
    /\ pc = "save"
    /\ error' = "OSError"
    /\ pc' = "aborted"
    /\ UNCHANGED <<run, rest, size, canvasVars, disk, written, console, kept>>

\* print(f'Generated icon-{size}x{size}.png'), and create_icon returns
PrintLine ==
    /\ pc = "print"
    /\ console' = Append(console, Message(size))
    /\ pc' = "loop"
    /\ UNCHANGED <<run, rest, size, canvasVars, disk, written, error, kept>>

\* A new process starts the script, its size list in the given order.
Restart(order) ==
    /\ pc' = "loop"
    /\ rest' = order
    /\ size' = 0
    /\ img' = NoImage
    /\ ball_shadow' = NoImage
    /\ i' = 0
    /\ alpha' = 0
    /\ angle' = 0
    /\ call' = NoCall
    /\ seg' = 0
    /\ k' = 0
    /\ strokes' = <<>>
    /\ written' = <<>>
    /\ console' = <<>>
    /\ error' = "none"
    /\ run' = run + 1

\* The script is run again over the files the earlier run left.
Rerun ==
    /\ pc \in {"done", "aborted"}
    /\ run < MaxRuns
    /\ Restart(SIZES)
    /\ UNCHANGED <<disk, kept>>

\* seq with its elements at positions a and b exchanged.
Swap(seq, a, b) ==
    [n \in 1..Len(seq) |->
        IF n = a THEN seq[b] ELSE IF n = b THEN seq[a] ELSE seq[n]]

\* seq started at its element r + 1, the first r elements moved to the end.
Rotate(seq, r) ==
    [n \in 1..Len(seq) |-> seq[((n - 1 + r) % Len(seq)) + 1]]

Reverse(seq) == [n \in 1..Len(seq) |-> seq[Len(seq) + 1 - n]]

\* Orders of the size list: the list itself, with any two sizes exchanged,
\* started anywhere, and backwards.
Orders ==
    LET pos == 1..Len(SIZES)
    IN  {Swap(SIZES, a, b) : a \in pos, b \in pos}
          \cup {Rotate(SIZES, r) : r \in pos}
          \cup {Reverse(SIZES)}

\* The files of a complete run are set aside, icons/ is emptied and the
\* script is started again with its size list in another order.
RerunReordered ==
    /\ pc = "done"
    /\ run < MaxRuns
    /\ \E order \in Orders : Restart(order)
    /\ kept' = disk
    /\ disk' = NoFiles

CreateIcon ==
    \/ Gradient
    \/ Shadow
    \/ Blur
    \/ PasteShadow
    \/ Ball
    \/ Pattern
    \/ Stroke
    \/ SaveOk
    \/ SaveFail
    \/ PrintLine

Next ==
    \/ LoopNext
    \/ LoopExit
    \/ CreateIcon

Spec == Init /\ [][Next]_vars

\* The script run MaxRuns times in a row over the same icons/ directory.
NextRerun ==
    \/ Next
    \/ Rerun

SpecRerun == Init /\ [][NextRerun]_vars

\* A run of the script as written, then runs into an emptied icons/ with
\* the size list reordered.
NextAnyOrder ==
    \/ Next
    \/ RerunReordered

SpecAnyOrder == Init /\ [][NextAnyOrder]_vars

----------------------------------------------------------------------------
\* Properties.

\* The position of a size in SIZES.
IndexOf(s) == CHOOSE n \in 1..Len(SIZES) : SIZES[n] = s

\* The paths of the first n sizes of the list.
FirstPaths(n) == {IconPath(SIZES[j]) : j \in 1..n}

ExpectedPaths ==
    <<"icons/icon-72x72.png", "icons/icon-96x96.png",
      "icons/icon-128x128.png", "icons/icon-144x144.png",
      "icons/icon-152x152.png", "icons/icon-192x192.png",
      "icons/icon-384x384.png", "icons/icon-512x512.png">>

\* C1: a run in which every write succeeds has written exactly eight files,
\* icons/icon-SxS.png for the eight sizes S, each once, and the file for S
\* holds an RGBA canvas of width S and height S.
C1_EightIcons ==
    pc = "done" =>
        /\ written = ExpectedPaths
        /\ DOMAIN disk = {ExpectedPaths[n] : n \in 1..8}
        /\ Cardinality(DOMAIN disk) = 8
        /\ \A n \in 1..8 :
              LET file == disk[ExpectedPaths[n]]
              IN  /\ file.width = SIZES[n]
                  /\ file.height = SIZES[n]
                  /\ file.mode = "RGBA"
                  /\ file.format = "PNG"
                  /\ \A p \in DOMAIN file.pixels :
                        /\ Len(file.pixels[p]) = 4
                        /\ p[1] < SIZES[n] /\ p[2] < SIZES[n]

C1_Witness == pc = "done" /\ Len(written) = 8 /\ error = "none"

\* C2: when the write of the k-th size fails the run ends at once: nothing
\* can happen any more, the loop has not moved on, the files of the sizes
\* before the k-th are on disk and those of the k-th and later sizes are not.
C2_AbortKeepsEarlierFiles ==
    error # "none" =>
        LET kth == IndexOf(size)
        IN  /\ pc = "aborted"
            /\ ~ENABLED Next
            /\ rest = SubSeq(SIZES, kth + 1, Len(SIZES))
            /\ DOMAIN disk = FirstPaths(kth - 1)
            /\ \A j \in kth..Len(SIZES) : IconPath(SIZES[j]) \notin DOMAIN disk
            /\ Len(written) = kth - 1

C2_Witness ==
    /\ error # "none"
    /\ size = 128
    /\ DOMAIN disk = {"icons/icon-72x72.png", "icons/icon-96x96.png"}

\* The console lines of the first n sizes of the list.
FirstMessages(n) == [j \in 1..n |-> Message(SIZES[j])]

\* C3 as stated: at every point the console holds exactly the lines
\* 'Generated icon-SxS.png' of the sizes whose file has been written, in
\* ascending order.
C3_ConsoleMatchesFilesAlways ==
    /\ DOMAIN disk = FirstPaths(Cardinality(DOMAIN disk))
    /\ console = FirstMessages(Cardinality(DOMAIN disk))

\* C3, amended: the console holds exactly the lines of the sizes whose file
\* has been written, in ascending order, except that between img.save and
\* print the line of the file just written is still to come; a size whose
\* write failed gets no line.
C3_ConsoleFollowsFiles ==
    LET n == Cardinality(DOMAIN disk)
    IN  /\ DOMAIN disk = FirstPaths(n)
        /\ console = FirstMessages(IF pc = "print" THEN n - 1 ELSE n)
        /\ Len(console) >= 1 => console[1] = "Generated icon-72x72.png"
        /\ Len(console) = 8 => console[8] = "Generated icon-512x512.png"
        /\ pc = "gradient" => Len(console) = IndexOf(size) - 1
        /\ pc = "aborted" =>
              \A j \in 1..Len(console) : console[j] # Message(size)

C3_Witness ==
    /\ pc = "aborted"
    /\ size = 144
    /\ Len(console) = 3
    /\ console[3] = "Generated icon-128x128.png"

\* C4: the centre pixel (size/2, size/2) is opaque white from the moment the
\* ball is drawn, through the arcs and the crosshair strokes, and in every
\* saved file.
C4_CenterWhite ==
    /\ pc \in {"pattern", "lines", "save", "print"} =>
          img[<<size \div 2, size \div 2>>] = <<255, 255, 255, 255>>
    /\ \A path \in DOMAIN disk :
          LET file == disk[path]
          IN  file.pixels[<<file.width \div 2, file.width \div 2>>]
                = <<255, 255, 255, 255>>

C4_Witness ==
    /\ pc = "print"
    /\ size = 512
    /\ Len(strokes) = 16
    /\ disk["icons/icon-512x512.png"].pixels[<<256, 256>>]
         = <<255, 255, 255, 255>>

Corners(edge) ==
    {<<0, 0>>, <<edge - 1, 0>>, <<0, edge - 1>>, <<edge - 1, edge - 1>>}

C7_OrderInsensitive ==
    (run > 1 /\ pc = "done") => disk = kept

C7_Witness ==
    /\ run = 2
    /\ pc = "done"
    /\ written[1] = "icons/icon-512x512.png"
    /\ written[8] = "icons/icon-72x72.png"
    /\ Cardinality(DOMAIN kept) = 8

\* A gradient circle has been drawn, and the loop variable it was drawn for.
GradDrawn == (pc = "gradient" /\ call # NoCall) \/ pc = "shadow"
GradDrawnFor == IF pc = "gradient" THEN i + 1 ELSE 0

\* round(n / d) for n, d > 0, halves up.
Round(n, d) == (2 * n + d) \div (2 * d)

\* C8 as stated: the loop starts at round(1.2 * size), the circle for i has
\* radius i around the centre, and alpha = round(255 * (1 - i/(1.2 * size))).
C8_GradientAsStated ==
    /\ (pc = "gradient" /\ call = NoCall) => i = Round(12 * size, 10)
    /\ GradDrawn =>
          /\ call.xy[3] - call.xy[1] = 2 * Q(GradDrawnFor)
          /\ call.xy[1] + call.xy[3] = Q(size)
          /\ alpha = Round(255 * (12 * size - 10 * GradDrawnFor), 12 * size)
          /\ alpha \in 0..255

\* What C8, amended, says of the state after a gradient circle is drawn.
GradientCircleOk ==
    /\ call.op = "ellipse"
    /\ call.xy[3] - call.xy[1] = Q(GradDrawnFor)
    /\ call.xy[4] - call.xy[2] = Q(GradDrawnFor)
    /\ call.xy[1] + call.xy[3] = Q(size)
    /\ call.xy[2] + call.xy[4] = Q(size)
    /\ call.fill = <<59, 130, 246, alpha>>
    /\ alpha * 12 * size <= 255 * (12 * size - 10 * GradDrawnFor)
    /\ 255 * (12 * size - 10 * GradDrawnFor) < (alpha + 1) * 12 * size
    /\ alpha \in 0..255
    /\ GradDrawnFor = 0 => alpha = 255

\* C8, amended: the loop starts at the integer part of 1.2 * size and runs
\* down to 0; the circle for i has diameter i (radius i/2) around the
\* centre and alpha = the integer part of 255 * (1 - i/(1.2 * size)), which
\* lies in 0..255, is 255 at i = 0 and never decreases as i decreases.
C8_Gradient ==
    [][/\ (pc' = "gradient" /\ call' = NoCall) =>
             /\ 10 * i' <= 12 * size'
             /\ 12 * size' < 10 * (i' + 1)
       /\ GradDrawn' => GradientCircleOk'
       /\ (GradDrawn /\ GradDrawn') => alpha' >= alpha
       /\ (pc = "gradient" /\ pc' = "shadow") => i = 0]_vars

C8_Witness ==
    /\ pc = "gradient"
    /\ size = 128
    /\ i = 99
    /\ alpha = 88
    /\ call.xy[3] - call.xy[1] = Q(100)

\* C9 as stated: each crosshair segment runs from the padding margin to the
\* ball's bounding edge, at distance ball_radius = (size - 2 * padding) / 3
\* from the centre.
C9_SegmentsReachBall ==
    \A n \in 1..Len(strokes) :
        LET st == strokes[n]
            away == IF st.seg \in {1, 3}
                    THEN Q(size) \div 2 - st.end[IF st.seg = 1 THEN 2 ELSE 1]
                    ELSE st.start[IF st.seg = 2 THEN 2 ELSE 1] - Q(size) \div 2
        IN  30 * away = 8 * Q(size)

\* C9, amended: each crosshair segment runs along the centre line from the
\* padding margin (0.1 * size from the canvas edge) to a point padding short
\* of the ball's bounding edge (ball_radius + padding = 11/30 * size from
\* the centre); it has positive length and lies inside the canvas.
C9_Segments ==
    \A n \in 1..Len(strokes) :
        LET st == strokes[n]
            along == IF st.seg \in {1, 2} THEN 2 ELSE 1
            across == IF st.seg \in {1, 2} THEN 1 ELSE 2
            towardEdge == IF st.seg \in {1, 3} THEN st.start[along]
                          ELSE Q(size) - st.end[along]
            away == IF st.seg \in {1, 3}
                    THEN Q(size) \div 2 - st.end[along]
                    ELSE st.start[along] - Q(size) \div 2
        IN  /\ st.seg = ((n - 1) \div 4) + 1
            /\ 2 * st.start[across] = Q(size)
            /\ 2 * st.end[across] = Q(size)
            /\ 10 * towardEdge = Q(size)
            /\ 30 * away = 11 * Q(size)
            /\ st.start[along] < st.end[along]
            /\ 0 <= st.start[along] /\ st.end[along] <= Q(size)
            /\ CInt(st.start[along]) < CInt(st.end[along])

C9_Witness ==
    /\ pc = "save"
    /\ size = 72
    /\ Len(strokes) = 16
    /\ {strokes[n].seg : n \in 1..16} = {1, 2, 3, 4}

\* C10: each crosshair segment is drawn as four strokes: glow strokes of
\* widths line_width + 6, + 4, + 2, then the solid white core of width
\* line_width = max(2, size // 30); each glow stroke is wider than the core;
\* for size 512 the core is 17 wide.
C10_Strokes ==
    /\ pc \in {"save", "print"} => Len(strokes) = 16
    /\ \A n \in 1..Len(strokes) :
          LET st == strokes[n]
              j == (n - 1) % 4
              core == strokes[4 * ((n - 1) \div 4) + 4].width
          IN  /\ st.seg = ((n - 1) \div 4) + 1
              /\ j = 3 =>
                    /\ st.fill = <<255, 255, 255, 255>>
                    /\ st.width >= 2
                    /\ 30 * st.width <= size \/ st.width = 2
                    /\ size < 30 * (st.width + 1)
                    /\ size = 512 => st.width = 17
              /\ j < 3 =>
                    /\ st.fill = <<255, 255, 255, 100>>
                    /\ n > 1 /\ j > 0 => st.width = strokes[n - 1].width - 2
              /\ (j < 3 /\ 4 * ((n - 1) \div 4) + 4 <= Len(strokes)) =>
                    /\ st.width = core + (3 - j) * 2
                    /\ st.width > core

C10_Witness ==
    /\ pc = "save"
    /\ size = 512
    /\ strokes[13].width = 23
    /\ strokes[16].width = 17

============================================================================
